---------------------------- MODULE Spec2Model ----------------------------
(***************************************************************************)
(* Parallel DBSCAN: neighbourhood graph construction (insert_edges),       *)
(* the two-phase Graph (staging -> CSR, finalize), classification          *)
(* (classify_nodes) and the level-synchronous parallel BFS                 *)
(* (identify_cluster / bfs) of DBSCAN::Solver, and the sequential          *)
(* GDBSCAN::Solver that shares the Graph.                                  *)
(*                                                                         *)
(* Indices are 0-based as in the source; TLA+ sequences are 1-based, so    *)
(* the C++ expression a[i] is written a[i + 1].                            *)
(***************************************************************************)
EXTENDS Integers, Sequences, FiniteSets, TLC

(***************************************************************************)
(* Bounds of the model.                                                    *)
(***************************************************************************)
MaxThreads == 2     \* num_threads_ ranges over 1..MaxThreads
MaxMinPts == 2      \* min_pts_ ranges over 1..MaxMinPts on the small inputs
MaxPts == 3         \* the exhaustively enumerated inputs have 1..MaxPts points
MaxCoord == 1       \* ... with x in 0..MaxCoord and y = 0
MaxEpsSq == 1       \* ... and squared radius in 0..MaxEpsSq
MaxStageNodes == 2  \* finalize on arbitrary staging: 1..MaxStageNodes nodes
MaxStageLen == 2    \* ... with dense staging lists of length 0..MaxStageLen
MaxGarbage == 1     \* a read outside an allocation yields a value in 0..MaxGarbage
MaxGraphNodes == 2  \* a Graph driven by a direct caller: 0..MaxGraphNodes nodes
MaxGraphLen == 1    \* ... whose dense lists grow to length MaxGraphLen

(***************************************************************************)
(* Program constants.                                                      *)
(***************************************************************************)
WordBits == 64      \* bits per staging word (uint64_t)
Unclustered == -1   \* cluster_ids value of an un-clustered node

VARIABLES
    dataset_,         \* [d1, d2]: the two coordinate columns
    num_nodes_,
    min_pts_,
    squared_radius_,
    num_threads_,
    bit_adj,          \* TRUE: the build with BIT_ADJ defined
    Va, Ea, cluster_ids, memberships,
    temp_adj_,        \* staging: lists (dense) or rows of words (BIT_ADJ)
    immutable_,
    pc,               \* position of the driver thread
    thr_u,            \* loop variable u of each worker of insert_edges / finalize
    node, cluster,    \* identify_cluster: loop index and running counter
    curr_level, next_level, chunk,   \* bfs locals
    wk,               \* bfs: per-worker [pc, idx, i]
    run,              \* 1: first execution, 2: second execution
    first,            \* outputs of the first execution
    call              \* the last operation invoked on the graph by its caller:
                      \* [op, u, v, thrown], thrown = "none" when it returned

vars == <<dataset_, num_nodes_, min_pts_, squared_radius_, num_threads_,
          bit_adj, Va, Ea, cluster_ids, memberships, temp_adj_, immutable_,
          pc, thr_u, node, cluster, curr_level, next_level, chunk, wk,
          run, first, call>>

inputs == <<dataset_, num_nodes_, min_pts_, squared_radius_>>
graph == <<Va, Ea, cluster_ids, memberships, temp_adj_, immutable_>>
bfsvars == <<curr_level, next_level, chunk, wk>>

Threads == 0 .. (num_threads_ - 1)
Nodes == 0 .. (num_nodes_ - 1)

Min(S) == CHOOSE x \in S : \A y \in S : x <= y
MinOf(a, b) == IF a <= b THEN a ELSE b

\* n copies of v
Fill(n, v) == [k \in 1 .. n |-> v]

(***************************************************************************)
(* Arithmetic helpers of the source.                                       *)
(***************************************************************************)
\* a / b + (a % b != 0)
CeilDiv(a, b) == (a \div b) + (IF a % b # 0 THEN 1 ELSE 0)

\* input_type::TwoDimPoints::euclidean_distance_square
euclidean_distance_square(ux, uy, vx, vy) ==
    (ux - vx) * (ux - vx) + (uy - vy) * (uy - vy)

\* GDBSCAN::point::EuclideanTwoD::operator- (the SQRE_RADIUS build)
EuclideanTwoD_minus(p, q) ==
    (p[1] - q[1]) * (p[1] - q[1]) + (p[2] - q[2]) * (p[2] - q[2])

(***************************************************************************)
(* Graph: construction and staging.                                        *)
(***************************************************************************)
\* number of uint64 words of one staging row
num_uint64(n) == CeilDiv(n, WordBits)

\* Graph::Graph, the staging area
Graph_temp_adj(n, bits) ==
    IF bits THEN Fill(n, Fill(num_uint64(n), {})) ELSE Fill(n, <<>>)

\* Graph::assert_mutable_ throws
assert_mutable_(frozen) == frozen

\* Graph::assert_immutable_ throws
assert_immutable_(frozen) == ~frozen

\* a variant of insert_edge_throws without assert_mutable_: the range test alone
insert_edge_throws_range_only(frozen, n, u, v) == u >= n \/ v >= n

\* Graph::insert_edge(u, v) throws
insert_edge_throws(frozen, n, u, v) == assert_mutable_(frozen) \/ u >= n \/ v >= n

\* Graph::insert_edge(u, v), dense staging
insert_edge(adj, frozen, n, u, v) ==
    IF insert_edge_throws(frozen, n, u, v) THEN adj
    ELSE [adj EXCEPT ![u + 1] = Append(@, v)]

\* a variant of insert_edge_bits_throws that admits idx == temp_adj_[u].size()
insert_edge_bits_throws_off_by_one(adj, frozen, n, u, idx) ==
    assert_mutable_(frozen) \/ u >= n \/ idx > Len(adj[u + 1])

\* Graph::insert_edge(u, idx, mask) throws
insert_edge_bits_throws(adj, frozen, n, u, idx) ==
    assert_mutable_(frozen) \/ u >= n \/ idx >= Len(adj[u + 1])

\* a variant of insert_edge_bits that assigns the mask: = instead of |=
insert_edge_bits_assign(adj, frozen, n, u, idx, mask) ==
    IF insert_edge_bits_throws(adj, frozen, n, u, idx) THEN adj
    ELSE [adj EXCEPT ![u + 1][idx + 1] = mask]

\* Graph::insert_edge(u, idx, mask), BIT_ADJ staging; a word is the set of
\* its set bit positions, so |= is set union
insert_edge_bits(adj, frozen, n, u, idx, mask) ==
    IF insert_edge_bits_throws(adj, frozen, n, u, idx) THEN adj
    ELSE [adj EXCEPT ![u + 1][idx + 1] = @ \cup mask]

\* Graph::start_insert(u): open the adjacency list of u
start_insert(adj, u) == adj

\* Graph::finish_insert(u): close the adjacency list of u
finish_insert(adj, u) == adj


(***************************************************************************)
(* DBSCAN::Solver::insert_edges: the distance kernel of one source u.      *)
(***************************************************************************)
d1(k) == dataset_.d1[k + 1]
d2(k) == dataset_.d2[k + 1]

\* a variant of edge_test that excludes the boundary: < instead of <=
edge_test_strict(u, v) ==
    u # v /\ euclidean_distance_square(d1(u), d2(u), d1(v), d2(v)) < squared_radius_

\* the edge test of the scalar kernels: u != v && dist(u, v) <= squared_radius_
edge_test(u, v) ==
    u # v /\ euclidean_distance_square(d1(u), d2(u), d1(v), d2(v)) <= squared_radius_

\* dense scalar kernel: for (v = 0; v < num_nodes_; ++v) if (...) insert_edge(u, v)
RECURSIVE dense_loop_v(_, _, _)
dense_loop_v(adj, u, v) ==
    IF v >= num_nodes_ THEN adj
    ELSE dense_loop_v(IF edge_test(u, v)
                        THEN insert_edge(adj, immutable_, num_nodes_, u, v)
                        ELSE adj,
                      u, v + 1)

\* dense scalar kernel, one source: start_insert; loop over v; finish_insert
dense_source(adj, u) == finish_insert(dense_loop_v(start_insert(adj, u), u, 0), u)

\* BIT_ADJ scalar kernel: the test of candidate v
\* u != v && v < num_nodes_ && dist(u, v) <= squared_radius_
bits_test(u, v) == u # v /\ v < num_nodes_ /\ edge_test(u, v)

\* BIT_ADJ scalar kernel: the masks 1 << inner, inner = 0 .. 63, that the inner
\* loop inserts into word idx (candidate v = idx * 64 + inner)
bits_masks(u, idx) ==
    { inner \in 0 .. (WordBits - 1) : bits_test(u, idx * WordBits + inner) }

\* BIT_ADJ scalar kernel: the inserts of the inner loop into word idx; the
\* single-bit masks are OR-ed into the word, here all at once
bits_word(adj, u, idx) ==
    IF bits_masks(u, idx) = {} THEN adj
    ELSE insert_edge_bits(adj, immutable_, num_nodes_, u, idx, bits_masks(u, idx))

\* BIT_ADJ scalar kernel: for (outer = 0; outer < N; outer += 4), the words
\* outer .. outer + 3
RECURSIVE bits_loop_outer(_, _, _)
bits_loop_outer(adj, u, outer) ==
    IF outer >= num_uint64(num_nodes_) THEN adj
    ELSE bits_loop_outer(
             bits_word(bits_word(bits_word(bits_word(adj, u, outer),
                                           u, outer + 1), u, outer + 2), u, outer + 3),
             u, outer + 4)

\* BIT_ADJ scalar kernel, one source
bits_source(adj, u) == bits_loop_outer(adj, u, 0)

\* a variant of insert_chunk that rounds down
insert_chunk_floor == num_nodes_ \div num_threads_

\* the chunk of worker tid: [tid * chunk, min(start + chunk, num_nodes_))
insert_chunk == CeilDiv(num_nodes_, num_threads_)
insert_start(tid) == tid * insert_chunk
insert_end(tid) == MinOf(insert_start(tid) + insert_chunk, num_nodes_)


(***************************************************************************)
(* Graph::finalize.                                                        *)
(***************************************************************************)
\* __builtin_popcountll
popcountll(val) == Cardinality(val)

\* __builtin_ffsll(val) - 1: position of the lowest set bit
ffsll_minus_1(val) == Min(val)

\* val &= (val - 1): clear the lowest set bit
clear_lowest(val) == val \ {Min(val)}

\* a variant of Va_offset that adds no degree: Va[node * 2 - 2] alone
Va_offset_no_degree(va, k) == IF k = 0 THEN 0 ELSE va[(2 * k - 2) + 1]

\* position in Ea: node == 0 ? 0 : Va[node * 2 - 1] + Va[node * 2 - 2]
Va_offset(va, k) == IF k = 0 THEN 0 ELSE va[(2 * k - 1) + 1] + va[(2 * k - 2) + 1]

\* BIT_ADJ: for (val : temp_adj_[node]) Va[node * 2 + 1] += popcount(val)
RECURSIVE Va_add_popcounts(_, _, _, _)
Va_add_popcounts(va, row, k, i) ==
    IF i >= Len(row) THEN va
    ELSE Va_add_popcounts([va EXCEPT ![(2 * k + 1) + 1] = @ + popcountll(row[i + 1])],
                          row, k, i + 1)

\* BIT_ADJ finalize, the loop that builds Va
RECURSIVE finalize_Va_bits(_, _, _)
finalize_Va_bits(va, adj, k) ==
    IF k >= Len(adj) THEN va
    ELSE finalize_Va_bits(
             Va_add_popcounts([va EXCEPT ![(2 * k) + 1] = Va_offset(va, k)],
                              adj[k + 1], k, 0),
             adj, k + 1)

\* dense finalize, the loop that builds Va
RECURSIVE finalize_Va_dense(_, _, _)
finalize_Va_dense(va, adj, k) ==
    IF k >= Len(adj) THEN va
    ELSE LET va1 == [va EXCEPT ![(2 * k) + 1] = Va_offset(va, k)]
             va2 == [va1 EXCEPT ![(2 * k + 1) + 1] = Len(adj[k + 1])]
         IN  finalize_Va_dense(va2, adj, k + 1)

\* a variant of finalize_throws: finalize without its assert_mutable_
finalize_throws_never(frozen) == FALSE

\* Graph::finalize throws: assert_mutable_ is its first statement
finalize_throws(frozen) == assert_mutable_(frozen)

\* sz = Va[Va.size() - 1] + Va[Va.size() - 2]
finalize_sz(va) == va[(Len(va) - 1) + 1] + va[(Len(va) - 2) + 1]

\* the values sz can take: with num_nodes_ == 0 Va is empty, Va.size() - 1
\* wraps around and both reads are outside the vector
finalize_sz_read(va) == IF Len(va) >= 2 THEN {finalize_sz(va)} ELSE 0 .. (2 * MaxGarbage)

\* Ea.resize(sz): the allocator constructs nothing; -1 marks a slot not yet written
Ea_resize(sz) == Fill(sz, -1)

\* dense fill of one node: std::copy(nbs.cbegin(), nbs.cend(), Ea.begin() + Va[2 * u])
RECURSIVE copy_nbs(_, _, _, _)
copy_nbs(ea, nbs, pos, i) ==
    IF i >= Len(nbs) THEN ea
    ELSE copy_nbs([ea EXCEPT ![pos + 1] = nbs[i + 1]], nbs, pos + 1, i + 1)

\* a variant of fill_dense that starts at the degree slot Va[2 * u + 1]
fill_dense_at_degree(ea, va, adj, u) == copy_nbs(ea, adj[u + 1], va[(2 * u + 1) + 1], 0)

fill_dense(ea, va, adj, u) == copy_nbs(ea, adj[u + 1], va[(2 * u) + 1], 0)

\* assert(nbs.size() == Va[2 * u + 1])
fill_dense_assert(va, adj, u) == Len(adj[u + 1]) = va[(2 * u + 1) + 1]

\* BIT_ADJ fill of one word: while (val) { k = ffs(val) - 1; *it = 64 * i + k; ++it; val &= val - 1 }
\* returns <<Ea, it>>
RECURSIVE fill_word(_, _, _, _)
fill_word(ea, it, i, val) ==
    IF val = {} THEN <<ea, it>>
    ELSE fill_word([ea EXCEPT ![it + 1] = WordBits * i + ffsll_minus_1(val)],
                   it + 1, i, clear_lowest(val))

\* BIT_ADJ fill of one node: for (i = 0; i < nbs.size(); ++i) ...
\* returns <<Ea, it>>
RECURSIVE fill_row(_, _, _, _)
fill_row(ea, it, nbs, i) ==
    IF i >= Len(nbs) THEN <<ea, it>>
    ELSE LET r == fill_word(ea, it, i, nbs[i + 1])
         IN  fill_row(r[1], r[2], nbs, i + 1)

fill_bits(ea, va, adj, u) == fill_row(ea, va[(2 * u) + 1], adj[u + 1], 0)[1]

\* assert(std::distance(Ea.begin(), it) == Va[2 * u] + Va[2 * u + 1])
fill_bits_assert(ea, va, adj, u) ==
    fill_row(ea, va[(2 * u) + 1], adj[u + 1], 0)[2] = va[(2 * u) + 1] + va[(2 * u + 1) + 1]

(***************************************************************************)
(* Reading the frozen graph.                                               *)
(***************************************************************************)
\* neighbours of n as bfs reads them: Ea[Va[2n] + i], i < Va[2n + 1]
bfs_start_pos(n) == Va[(2 * n) + 1]
bfs_num_neighbours(n) == Va[(2 * n + 1) + 1]
bfs_nb(n, i) == Ea[(bfs_start_pos(n) + i) + 1]

\* a variant of classify with > instead of >=
classify_strict(va, k) == IF va[(2 * k + 1) + 1] > min_pts_ THEN "Core" ELSE "Noise"

\* classify_nodes: Va[node * 2 + 1] >= min_pts_ ? Core : Noise
classify(va, k) == IF va[(2 * k + 1) + 1] >= min_pts_ THEN "Core" ELSE "Noise"


(***************************************************************************)
(* Inputs.                                                                 *)
(***************************************************************************)
\* every placement of 1..MaxPts points on the line y = 0, x in 0..MaxCoord
SmallInputs ==
    { [d1 |-> xs, d2 |-> Fill(Len(xs), 0), eps2 |-> e, minpts |-> m] :
        xs \in UNION { [1 .. n -> 0 .. MaxCoord] : n \in 1 .. MaxPts },
        e \in 0 .. MaxEpsSq, m \in 1 .. MaxMinPts }

\* named inputs: a cluster with two borders and a noise point; a chain; two
\* clusters; two inputs in which several Core nodes of one BFS level share
\* an un-clustered neighbour; and an input with a node that is not Core
\* between three clusters
Scenarios ==
    { [d1 |-> <<0, 0, 0, 5>>, d2 |-> <<0, 1, 2, 5>>, eps2 |-> 1, minpts |-> 2],
      [d1 |-> <<0, 1, 2, 3, 4>>, d2 |-> <<0, 0, 0, 0, 0>>, eps2 |-> 1, minpts |-> 2],
      [d1 |-> <<0, 0, 1, 10, 10, 11>>, d2 |-> <<0, 1, 0, 10, 11, 10>>,
       eps2 |-> 2, minpts |-> 2],
      [d1 |-> <<0, 1, 0, 1, 2, 3, 4>>, d2 |-> <<0, 0, 0, 0, 0, 0, 0>>,
       eps2 |-> 1, minpts |-> 3],
      [d1 |-> <<0, 1, 0, 1, 2, 3, 4, 5, 5>>, d2 |-> <<0, 0, 0, 0, 0, 0, 0, 0, 0>>,
       eps2 |-> 1, minpts |-> 3],
      [d1 |-> <<0, 1, 0, 1, 0, 2, 3, 4, 5, 5, 5, 5, 3, 3, 3, 3, 3>>,
       d2 |-> <<0, 0, 0, 0, 0, 0, 0, 0, 0, 0, 0, 0, 1, 2, 2, 2, 2>>,
       eps2 |-> 1, minpts |-> 4] }

\* the input file with num_nodes == 0
EmptyInput == [d1 |-> <<>>, d2 |-> <<>>, eps2 |-> 1, minpts |-> 1]

Inputs == SmallInputs \cup Scenarios \cup {EmptyInput}

NoCall == [op |-> "none", u |-> 0, v |-> 0, thrown |-> "none"]
Returned(op) == [op |-> op, u |-> 0, v |-> 0, thrown |-> "none"]
Threw(op, u, v, what) == [op |-> op, u |-> u, v |-> v, thrown |-> what]

NoOutputs == [Va |-> <<>>, Ea |-> <<>>, memberships |-> <<>>, cluster_ids |-> <<>>,
              bit_adj |-> FALSE, num_threads |-> 0]

\* graph_ == nullptr
NoGraph ==
    /\ Va = <<>> /\ Ea = <<>> /\ cluster_ids = <<>> /\ memberships = <<>>
    /\ temp_adj_ = <<>> /\ immutable_ = FALSE

IdleControl ==
    /\ thr_u = <<>> /\ node = 0 /\ cluster = 0
    /\ curr_level = <<>> /\ next_level = <<>> /\ chunk = 0 /\ wk = <<>>

\* DBSCAN::Solver::Solver: the dataset is read, no graph yet
Init ==
    /\ \E inp \in Inputs :
         /\ dataset_ = [d1 |-> inp.d1, d2 |-> inp.d2]
         /\ num_nodes_ = Len(inp.d1)
         /\ min_pts_ = inp.minpts
         /\ squared_radius_ = inp.eps2
    /\ num_threads_ \in 1 .. MaxThreads
    /\ bit_adj \in BOOLEAN
    /\ NoGraph
    /\ IdleControl
    /\ pc = "start"
    /\ run = 1
    /\ first = NoOutputs
    /\ call = NoCall

(***************************************************************************)
(* DBSCAN::Solver::insert_edges.                                           *)
(***************************************************************************)
\* graph_ = make_unique<Graph>(num_nodes_, num_threads_); spawn the workers
InsertEdgesSpawn ==
    /\ pc = "start"
    /\ Va' = Fill(2 * num_nodes_, 0)
    /\ Ea' = <<>>
    /\ cluster_ids' = Fill(num_nodes_, Unclustered)
    /\ memberships' = Fill(num_nodes_, "Noise")
    /\ temp_adj_' = Graph_temp_adj(num_nodes_, bit_adj)
    /\ immutable_' = FALSE
    /\ thr_u' = [k \in 1 .. num_threads_ |-> insert_start(k - 1)]
    /\ pc' = "insert_edges"
    /\ UNCHANGED <<inputs, num_threads_, bit_adj, node, cluster, bfsvars, run, first, call>>

\* one iteration of the worker's loop over its sources u
InsertEdgesThread(tid) ==
    /\ pc = "insert_edges"
    /\ thr_u[tid + 1] < insert_end(tid)
    /\ temp_adj_' = IF bit_adj THEN bits_source(temp_adj_, thr_u[tid + 1])
                               ELSE dense_source(temp_adj_, thr_u[tid + 1])
    /\ thr_u' = [thr_u EXCEPT ![tid + 1] = @ + 1]
    /\ UNCHANGED <<inputs, num_threads_, bit_adj, Va, Ea, cluster_ids, memberships,
                   immutable_, pc, node, cluster, bfsvars, run, first, call>>

\* for (auto& tr : threads) tr.join()
InsertEdgesJoin ==
    /\ pc = "insert_edges"
    /\ \A tid \in Threads : thr_u[tid + 1] >= insert_end(tid)
    /\ pc' = "finalize"
    /\ thr_u' = <<>>
    /\ UNCHANGED <<inputs, num_threads_, bit_adj, graph, node, cluster, bfsvars,
                   run, first, call>>

(***************************************************************************)
(* Graph::finalize.                                                        *)
(***************************************************************************)
\* assert_mutable_; build Va; return if the graph has no edges, else resize
\* Ea and spawn the fill workers (worker tid starts at u = tid).  With
\* num_nodes_ == 0 the two reads of sz are out of bounds: the process is
\* killed, or they yield some value
FinalizeBegin ==
    /\ pc = "finalize"
    /\ IF finalize_throws(immutable_)
         THEN /\ call' = Threw("finalize", 0, 0, "Graph is immutable!")
              /\ pc' = "thrown"
              /\ UNCHANGED <<Va, Ea, temp_adj_, immutable_, thr_u>>
         ELSE LET va == IF bit_adj THEN finalize_Va_bits(Va, temp_adj_, 0)
                                   ELSE finalize_Va_dense(Va, temp_adj_, 0)
              IN  \/ /\ Len(va) < 2
                     /\ call' = Threw("finalize", 0, 0, "SIGSEGV")
                     /\ pc' = "crashed"
                     /\ UNCHANGED <<Va, Ea, temp_adj_, immutable_, thr_u>>
                  \/ \E sz \in finalize_sz_read(va) :
                       /\ Va' = va
                       /\ call' = Returned("finalize")
                       /\ IF sz = 0
                            THEN /\ temp_adj_' = <<>>
                                 /\ immutable_' = TRUE
                                 /\ pc' = "classify_nodes"
                                 /\ UNCHANGED <<Ea, thr_u>>
                            ELSE /\ Ea' = Ea_resize(sz)
                                 /\ thr_u' = [k \in 1 .. num_threads_ |-> k - 1]
                                 /\ pc' = "fill"
                                 /\ UNCHANGED <<temp_adj_, immutable_>>
    /\ UNCHANGED <<inputs, num_threads_, bit_adj, cluster_ids, memberships,
                   node, cluster, bfsvars, run, first>>

\* one iteration of for (u = tid; u < num_nodes_; u += num_threads_); a failed
\* assert aborts the process (dense: before the copy; BIT_ADJ: after the writes)
FinalizeThread(tid) ==
    /\ pc = "fill"
    /\ thr_u[tid + 1] < num_nodes_
    /\ LET u == thr_u[tid + 1]
           ok == IF bit_adj THEN fill_bits_assert(Ea, Va, temp_adj_, u)
                            ELSE fill_dense_assert(Va, temp_adj_, u)
       IN  /\ Ea' = IF bit_adj THEN fill_bits(Ea, Va, temp_adj_, u)
                    ELSE IF ok THEN fill_dense(Ea, Va, temp_adj_, u)
                    ELSE Ea
           /\ IF ok
                THEN /\ thr_u' = [thr_u EXCEPT ![tid + 1] = @ + num_threads_]
                     /\ UNCHANGED <<pc, call>>
                ELSE /\ pc' = "aborted"
                     /\ call' = Threw("finalize", u, 0, "SIGABRT")
                     /\ UNCHANGED thr_u
    /\ UNCHANGED <<inputs, num_threads_, bit_adj, Va, cluster_ids, memberships,
                   temp_adj_, immutable_, node, cluster, bfsvars, run, first>>

\* join; temp_adj_.clear(); immutable_ = true
FinalizeJoin ==
    /\ pc = "fill"
    /\ \A tid \in Threads : thr_u[tid + 1] >= num_nodes_
    /\ temp_adj_' = <<>>
    /\ immutable_' = TRUE
    /\ thr_u' = <<>>
    /\ pc' = "classify_nodes"
    /\ UNCHANGED <<inputs, num_threads_, bit_adj, Va, Ea, cluster_ids, memberships,
                   node, cluster, bfsvars, run, first, call>>

(***************************************************************************)
(* DBSCAN::Solver::classify_nodes.                                         *)
(***************************************************************************)
ClassifyNodes ==
    /\ pc = "classify_nodes"
    /\ memberships' = [k \in 1 .. num_nodes_ |-> classify(Va, k - 1)]
    /\ pc' = "identify_cluster"
    /\ node' = 0
    /\ cluster' = 0
    /\ call' = Returned("classify_nodes")
    /\ UNCHANGED <<inputs, num_threads_, bit_adj, Va, Ea, cluster_ids, temp_adj_,
                   immutable_, thr_u, bfsvars, run, first>>


(***************************************************************************)
(* DBSCAN::Solver::identify_cluster and DBSCAN::Solver::bfs.               *)
(***************************************************************************)
\* a variant of is_seed without the test of the membership
is_seed_unclustered_only(k) == cluster_ids[k + 1] = Unclustered

\* a variant of is_seed without the test of the cluster id
is_seed_core_only(k) == memberships[k + 1] = "Core"

\* the test of the outer loop: un-clustered and Core
is_seed(k) == cluster_ids[k + 1] = Unclustered /\ memberships[k + 1] = "Core"

\* a variant of bfs_chunk that rounds down
bfs_chunk_floor(size) == size \div num_threads_

\* chunk = curr_level.size() / num_threads_ + (curr_level.size() % num_threads_ != 0)
bfs_chunk(size) == CeilDiv(size, num_threads_)

\* start = tid * chunk; end = min(start + chunk, curr_level.size())
bfs_start(tid, ch) == tid * ch
bfs_end(tid, ch, size) == MinOf(bfs_start(tid, ch) + ch, size)

\* a worker at the head of its loop over [idx, end)
worker_at(tid, ch, size, idx) ==
    IF idx < bfs_end(tid, ch, size)
      THEN [pc |-> "visit", idx |-> idx, i |-> 0]
      ELSE [pc |-> "exit", idx |-> idx, i |-> 0]

\* the threads of one level
spawn_level(ch, size) ==
    [k \in 1 .. num_threads_ |-> worker_at(k - 1, ch, size, bfs_start(k - 1, ch))]

\* the node a worker is at: curr_level[curr_node_idx]
wk_node(tid) == curr_level[wk[tid + 1].idx + 1]

\* ++curr_node_idx
wk_advance(tid) == worker_at(tid, chunk, Len(curr_level), wk[tid + 1].idx + 1)

\* the neighbour loop at index i of the current node (or past its end)
wk_neighbour(tid, i) ==
    IF i < bfs_num_neighbours(wk_node(tid))
      THEN [pc |-> "check", idx |-> wk[tid + 1].idx, i |-> i]
      ELSE wk_advance(tid)

\* the outer loop of identify_cluster up to the next seed, the assignment of
\* its cluster id and the start of bfs (level 0), or the return when no seed
\* is left
IdentifyCluster ==
    /\ pc = "identify_cluster"
    /\ LET seeds == { k \in Nodes : k >= node /\ is_seed(k) }
       IN  IF seeds = {}
             THEN /\ pc' = "done"
                  /\ node' = num_nodes_
                  /\ UNCHANGED <<cluster_ids, bfsvars>>
             ELSE LET seed == Min(seeds)
                  IN  /\ node' = seed
                      /\ cluster_ids' = [cluster_ids EXCEPT ![seed + 1] = cluster]
                      /\ curr_level' = <<seed>>
                      /\ next_level' = Fill(num_threads_, <<>>)
                      /\ chunk' = bfs_chunk(1)
                      /\ wk' = spawn_level(bfs_chunk(1), 1)
                      /\ pc' = "bfs"
    /\ UNCHANGED <<inputs, num_threads_, bit_adj, Va, Ea, memberships, temp_adj_,
                   immutable_, thr_u, cluster, run, first, call>>

\* if (memberships[node] == Noise): the read
BfsVisit(tid) ==
    /\ pc = "bfs"
    /\ wk[tid + 1].pc = "visit"
    /\ wk' = [wk EXCEPT ![tid + 1] =
                IF memberships[wk_node(tid) + 1] = "Noise"
                  THEN [@ EXCEPT !.pc = "relabel"]
                  ELSE wk_neighbour(tid, 0)]
    /\ UNCHANGED <<inputs, num_threads_, bit_adj, graph, pc, thr_u, node, cluster,
                   curr_level, next_level, chunk, run, first, call>>

\* a variant of BfsRelabel that promotes the node to Core
BfsRelabel_to_core(tid) ==
    /\ pc = "bfs"
    /\ wk[tid + 1].pc = "relabel"
    /\ memberships' = [memberships EXCEPT ![wk_node(tid) + 1] = "Core"]
    /\ wk' = [wk EXCEPT ![tid + 1] = wk_advance(tid)]
    /\ UNCHANGED <<inputs, num_threads_, bit_adj, Va, Ea, cluster_ids, temp_adj_,
                   immutable_, pc, thr_u, node, cluster, curr_level, next_level,
                   chunk, run, first, call>>

\* memberships[node] = Border; continue
BfsRelabel(tid) ==
    /\ pc = "bfs"
    /\ wk[tid + 1].pc = "relabel"
    /\ memberships' = [memberships EXCEPT ![wk_node(tid) + 1] = "Border"]
    /\ wk' = [wk EXCEPT ![tid + 1] = wk_advance(tid)]
    /\ UNCHANGED <<inputs, num_threads_, bit_adj, Va, Ea, cluster_ids, temp_adj_,
                   immutable_, pc, thr_u, node, cluster, curr_level, next_level,
                   chunk, run, first, call>>

\* nb = Ea[start_pos + i]; if (cluster_ids[nb] == -1): the read
BfsCheck(tid) ==
    /\ pc = "bfs"
    /\ wk[tid + 1].pc = "check"
    /\ LET nb == bfs_nb(wk_node(tid), wk[tid + 1].i)
       IN  wk' = [wk EXCEPT ![tid + 1] =
                    IF cluster_ids[nb + 1] = Unclustered
                      THEN [@ EXCEPT !.pc = "assign"]
                      ELSE wk_neighbour(tid, wk[tid + 1].i + 1)]
    /\ UNCHANGED <<inputs, num_threads_, bit_adj, graph, pc, thr_u, node, cluster,
                   curr_level, next_level, chunk, run, first, call>>

\* a variant of BfsAssign that clusters nb and does not enqueue it
BfsAssign_no_push(tid) ==
    /\ pc = "bfs"
    /\ wk[tid + 1].pc = "assign"
    /\ LET nb == bfs_nb(wk_node(tid), wk[tid + 1].i)
       IN  cluster_ids' = [cluster_ids EXCEPT ![nb + 1] = cluster]
    /\ wk' = [wk EXCEPT ![tid + 1] = wk_neighbour(tid, wk[tid + 1].i + 1)]
    /\ UNCHANGED <<inputs, num_threads_, bit_adj, Va, Ea, memberships, temp_adj_,
                   immutable_, pc, thr_u, node, cluster, curr_level, next_level,
                   chunk, run, first, call>>

\* cluster_ids[nb] = cluster; next_level[tid].emplace_back(nb)
BfsAssign(tid) ==
    /\ pc = "bfs"
    /\ wk[tid + 1].pc = "assign"
    /\ LET nb == bfs_nb(wk_node(tid), wk[tid + 1].i)
       IN  /\ cluster_ids' = [cluster_ids EXCEPT ![nb + 1] = cluster]
           /\ next_level' = [next_level EXCEPT ![tid + 1] = Append(@, nb)]
    /\ wk' = [wk EXCEPT ![tid + 1] = wk_neighbour(tid, wk[tid + 1].i + 1)]
    /\ UNCHANGED <<inputs, num_threads_, bit_adj, Va, Ea, memberships, temp_adj_,
                   immutable_, pc, thr_u, node, cluster, curr_level, chunk, run, first, call>>

\* flatten next_level in worker order
RECURSIVE flatten(_, _)
flatten(lvls, k) == IF k > Len(lvls) THEN <<>> ELSE lvls[k] \o flatten(lvls, k + 1)

\* a variant of BfsJoin that does not clear next_level
BfsJoin_no_clear ==
    /\ pc = "bfs"
    /\ \A tid \in Threads : wk[tid + 1].pc = "exit"
    /\ LET cur == flatten(next_level, 1)
       IN  /\ curr_level' = cur
           /\ IF cur # <<>>
                THEN /\ chunk' = bfs_chunk(Len(cur))
                     /\ wk' = spawn_level(bfs_chunk(Len(cur)), Len(cur))
                     /\ UNCHANGED <<pc, node, cluster>>
                ELSE /\ wk' = <<>>
                     /\ cluster' = cluster + 1
                     /\ node' = node + 1
                     /\ pc' = "identify_cluster"
                     /\ UNCHANGED chunk
    /\ UNCHANGED <<inputs, num_threads_, bit_adj, graph, thr_u, next_level, run, first, call>>

\* join; curr_level = flatten(next_level); clear next_level; then the next
\* level, or the return of bfs and ++cluster, ++node in identify_cluster
BfsJoin ==
    /\ pc = "bfs"
    /\ \A tid \in Threads : wk[tid + 1].pc = "exit"
    /\ LET cur == flatten(next_level, 1)
       IN  /\ curr_level' = cur
           /\ next_level' = Fill(num_threads_, <<>>)
           /\ IF cur # <<>>
                THEN /\ chunk' = bfs_chunk(Len(cur))
                     /\ wk' = spawn_level(bfs_chunk(Len(cur)), Len(cur))
                     /\ UNCHANGED <<pc, node, cluster>>
                ELSE /\ wk' = <<>>
                     /\ cluster' = cluster + 1
                     /\ node' = node + 1
                     /\ pc' = "identify_cluster"
                     /\ UNCHANGED chunk
    /\ UNCHANGED <<inputs, num_threads_, bit_adj, graph, thr_u, run, first, call>>

(***************************************************************************)
(* A second execution of the program on the same input, with any build     *)
(* flag and thread count; the outputs of the first one are kept.           *)
(***************************************************************************)
Rerun ==
    /\ pc = "done"
    /\ run = 1
    /\ first' = [Va |-> Va, Ea |-> Ea, memberships |-> memberships,
                 cluster_ids |-> cluster_ids, bit_adj |-> bit_adj,
                 num_threads |-> num_threads_]
    /\ run' = 2
    /\ num_threads_' \in 1 .. MaxThreads
    /\ bit_adj' \in BOOLEAN
    /\ Va' = <<>> /\ Ea' = <<>> /\ cluster_ids' = <<>> /\ memberships' = <<>>
    /\ temp_adj_' = <<>> /\ immutable_' = FALSE
    /\ thr_u' = <<>> /\ node' = 0 /\ cluster' = 0
    /\ curr_level' = <<>> /\ next_level' = <<>> /\ chunk' = 0 /\ wk' = <<>>
    /\ pc' = "start"
    /\ call' = NoCall
    /\ UNCHANGED inputs

Next ==
    \/ InsertEdgesSpawn
    \/ \E tid \in Threads : InsertEdgesThread(tid)
    \/ InsertEdgesJoin
    \/ FinalizeBegin
    \/ \E tid \in Threads : FinalizeThread(tid)
    \/ FinalizeJoin
    \/ ClassifyNodes
    \/ IdentifyCluster
    \/ \E tid \in Threads : BfsVisit(tid)
    \/ \E tid \in Threads : BfsRelabel(tid)
    \/ \E tid \in Threads : BfsCheck(tid)
    \/ \E tid \in Threads : BfsAssign(tid)
    \/ BfsJoin

Spec == Init /\ [][Next]_vars

\* the program executed twice on the same input
NextTwice ==
    \/ Next
    \/ Rerun

SpecTwice == Init /\ [][NextTwice]_vars

\* the steps of identify_cluster and of the bfs workers it spawns
IdentifyClusterStep ==
    \/ IdentifyCluster
    \/ \E tid \in Threads : BfsVisit(tid)
    \/ \E tid \in Threads : BfsRelabel(tid)
    \/ \E tid \in Threads : BfsCheck(tid)
    \/ \E tid \in Threads : BfsAssign(tid)
    \/ BfsJoin

\* the same program under a scheduler that keeps running identify_cluster:
\* while it or one of its workers has a step to take, a step is eventually
\* taken
SpecFair == Spec /\ WF_vars(IdentifyClusterStep)


(***************************************************************************)
(* GDBSCAN::Solver (single-threaded), on the same Graph.                   *)
(***************************************************************************)
\* (*dataset_)[k]
g_point(k) == <<dataset_.d1[k + 1], dataset_.d2[k + 1]>>

\* make_graph: (*dataset_)[u] - (*dataset_)[v] <= radius_.  operator- yields
\* the squared distance in the SQRE_RADIUS build and its square root
\* otherwise; on the non-negative radius both tests select the same pairs
g_edge_test(u, v) == EuclideanTwoD_minus(g_point(u), g_point(v)) <= squared_radius_

\* make_graph: for (v = u + 1; v < num_nodes_; ++v) if (...) insert_edge(u, v)
RECURSIVE g_loop_v(_, _, _)
g_loop_v(adj, u, v) ==
    IF v >= num_nodes_ THEN adj
    ELSE g_loop_v(IF g_edge_test(u, v)
                    THEN insert_edge(adj, FALSE, num_nodes_, u, v)
                    ELSE adj,
                  u, v + 1)

\* GDBSCAN::Solver::classify_nodes: Va[node * 2] >= min_pts_ ? Core : Noise
g_classify(va, k) == IF va[(2 * k) + 1] >= min_pts_ THEN "Core" ELSE "Noise"

\* GDBSCAN::Solver::bfs: num_neighbours = Va[2 * curr]; start_pos = Va[2 * curr + 1]
g_bfs_num_neighbours(n) == Va[(2 * n) + 1]
g_bfs_start_pos(n) == Va[(2 * n + 1) + 1]
g_bfs_nb(n, i) == Ea[(g_bfs_start_pos(n) + i) + 1]

\* GDBSCAN::Solver::bfs: the neighbour loop of one node; st = [ids, nl]
RECURSIVE g_expand(_, _, _)
g_expand(st, n, i) ==
    IF i >= g_bfs_num_neighbours(n) THEN st
    ELSE LET nb == g_bfs_nb(n, i)
         IN  g_expand(IF st.ids[nb + 1] = Unclustered
                        THEN [ids |-> [st.ids EXCEPT ![nb + 1] = cluster],
                              nl |-> Append(st.nl, nb)]
                        ELSE st,
                      n, i + 1)

\* GDBSCAN has one build: dense staging
InitG ==
    /\ \E inp \in Inputs :
         /\ dataset_ = [d1 |-> inp.d1, d2 |-> inp.d2]
         /\ num_nodes_ = Len(inp.d1)
         /\ min_pts_ = inp.minpts
         /\ squared_radius_ = inp.eps2
    /\ num_threads_ \in 1 .. MaxThreads
    /\ bit_adj = FALSE
    /\ NoGraph
    /\ IdleControl
    /\ pc = "start"
    /\ run = 1
    /\ first = NoOutputs
    /\ call = NoCall

\* make_graph: graph_ = make_unique<Graph>(...), then the loop over u
G_MakeGraph ==
    /\ pc = "start"
    /\ Va' = Fill(2 * num_nodes_, 0)
    /\ Ea' = <<>>
    /\ cluster_ids' = Fill(num_nodes_, Unclustered)
    /\ memberships' = Fill(num_nodes_, "Noise")
    /\ temp_adj_' = Graph_temp_adj(num_nodes_, FALSE)
    /\ immutable_' = FALSE
    /\ thr_u' = <<0>>
    /\ pc' = "make_graph"
    /\ UNCHANGED <<inputs, num_threads_, bit_adj, node, cluster, bfsvars, run, first, call>>

\* make_graph: one iteration of for (u = 0; u < num_nodes_; ++u)
G_InsertSource ==
    /\ pc = "make_graph"
    /\ thr_u[1] < num_nodes_
    /\ temp_adj_' = g_loop_v(temp_adj_, thr_u[1], thr_u[1] + 1)
    /\ thr_u' = <<thr_u[1] + 1>>
    /\ UNCHANGED <<inputs, num_threads_, bit_adj, Va, Ea, cluster_ids, memberships,
                   immutable_, pc, node, cluster, bfsvars, run, first, call>>

\* make_graph: the loop is over; graph_->finalize()
G_InsertDone ==
    /\ pc = "make_graph"
    /\ thr_u[1] >= num_nodes_
    /\ thr_u' = <<>>
    /\ pc' = "finalize"
    /\ UNCHANGED <<inputs, num_threads_, bit_adj, graph, node, cluster, bfsvars,
                   run, first, call>>

\* make_graph: classify_nodes()
G_ClassifyNodes ==
    /\ pc = "classify_nodes"
    /\ memberships' = [k \in 1 .. num_nodes_ |-> g_classify(Va, k - 1)]
    /\ pc' = "identify_cluster"
    /\ node' = 0
    /\ cluster' = 0
    /\ call' = Returned("classify_nodes")
    /\ UNCHANGED <<inputs, num_threads_, bit_adj, Va, Ea, cluster_ids, temp_adj_,
                   immutable_, thr_u, bfsvars, run, first>>

\* identify_cluster: the outer loop up to the next seed and the start of bfs
\* (q = {node}), or the return
G_IdentifyCluster ==
    /\ pc = "identify_cluster"
    /\ LET seeds == { k \in Nodes : k >= node /\ is_seed(k) }
       IN  IF seeds = {}
             THEN /\ pc' = "done"
                  /\ node' = num_nodes_
                  /\ UNCHANGED <<cluster_ids, curr_level, wk>>
             ELSE /\ node' = Min(seeds)
                  /\ cluster_ids' = [cluster_ids EXCEPT ![Min(seeds) + 1] = cluster]
                  /\ curr_level' = <<Min(seeds)>>
                  /\ wk' = 0
                  /\ pc' = "bfs"
    /\ UNCHANGED <<inputs, num_threads_, bit_adj, Va, Ea, memberships, temp_adj_,
                   immutable_, thr_u, cluster, next_level, chunk, run, first, call>>

\* bfs: one iteration of for (curr : q); wk is the position in q
G_BfsVisit ==
    /\ pc = "bfs"
    /\ wk < Len(curr_level)
    /\ LET curr == curr_level[wk + 1]
       IN  IF memberships[curr + 1] = "Noise"
             THEN /\ memberships' = [memberships EXCEPT ![curr + 1] = "Border"]
                  /\ UNCHANGED <<cluster_ids, next_level>>
             ELSE LET st == g_expand([ids |-> cluster_ids, nl |-> next_level], curr, 0)
                  IN  /\ cluster_ids' = st.ids
                      /\ next_level' = st.nl
                      /\ UNCHANGED memberships
    /\ wk' = wk + 1
    /\ UNCHANGED <<inputs, num_threads_, bit_adj, Va, Ea, temp_adj_, immutable_,
                   pc, thr_u, node, cluster, curr_level, chunk, run, first, call>>

\* bfs: q = next_level; next_level.clear(); then the next level, or the return
\* of bfs and ++cluster, ++node in identify_cluster
G_BfsLevel ==
    /\ pc = "bfs"
    /\ wk >= Len(curr_level)
    /\ curr_level' = next_level
    /\ next_level' = <<>>
    /\ wk' = 0
    /\ IF next_level # <<>>
         THEN UNCHANGED <<pc, node, cluster>>
         ELSE /\ cluster' = cluster + 1
              /\ node' = node + 1
              /\ pc' = "identify_cluster"
    /\ UNCHANGED <<inputs, num_threads_, bit_adj, graph, thr_u, chunk, run, first, call>>

NextG ==
    \/ G_MakeGraph
    \/ G_InsertSource
    \/ G_InsertDone
    \/ FinalizeBegin
    \/ \E tid \in Threads : FinalizeThread(tid)
    \/ FinalizeJoin
    \/ G_ClassifyNodes
    \/ G_IdentifyCluster
    \/ G_BfsVisit
    \/ G_BfsLevel

SpecG == InitG /\ [][NextG]_vars

(***************************************************************************)
(* Graph::finalize on arbitrary staging content: whatever a caller of      *)
(* insert_edge can have staged (any list of in-range nodes, repeats        *)
(* included; any bits of the row's words, bits past num_nodes_ included).  *)
(***************************************************************************)
SeqsUpTo(S, n) == UNION { [1 .. k -> S] : k \in 0 .. n }

StageBits == {0, 1, WordBits - 1}

StagedDense(n) == [1 .. n -> SeqsUpTo(0 .. (n - 1), MaxStageLen)]
StagedBits(n) == [1 .. n -> [1 .. num_uint64(n) -> SUBSET StageBits]]

InitFinalize ==
    /\ num_nodes_ \in 1 .. MaxStageNodes
    /\ num_threads_ \in 1 .. MaxThreads
    /\ bit_adj \in BOOLEAN
    /\ temp_adj_ \in IF bit_adj THEN StagedBits(num_nodes_) ELSE StagedDense(num_nodes_)
    /\ dataset_ = [d1 |-> Fill(num_nodes_, 0), d2 |-> Fill(num_nodes_, 0)]
    /\ min_pts_ = 1
    /\ squared_radius_ = 0
    /\ Va = Fill(2 * num_nodes_, 0)
    /\ Ea = <<>>
    /\ cluster_ids = Fill(num_nodes_, Unclustered)
    /\ memberships = Fill(num_nodes_, "Noise")
    /\ immutable_ = FALSE
    /\ IdleControl
    /\ pc = "finalize"
    /\ run = 1
    /\ first = NoOutputs
    /\ call = NoCall

NextFinalize ==
    \/ FinalizeBegin
    \/ \E tid \in Threads : FinalizeThread(tid)
    \/ FinalizeJoin

SpecFinalize == InitFinalize /\ [][NextFinalize]_vars

(***************************************************************************)
(* A Graph driven by a direct caller: after the constructor the caller     *)
(* invokes insert_edge, finalize and classify_nodes in any order and with  *)
(* any arguments, catches what they throw and goes on.                     *)
(***************************************************************************)
\* the caller is between two operations
CallerIdle == pc \in {"graph", "classify_nodes", "identify_cluster", "thrown"}

\* what insert_edge throws: assert_mutable_ comes first, then the range test
insert_edge_what(throws, frozen) ==
    IF ~throws THEN "none"
    ELSE IF assert_mutable_(frozen) THEN "Graph is immutable!"
    ELSE "is out of bound!"

\* Graph::Graph(num_nodes, num_threads)
InitGraph ==
    /\ num_nodes_ \in 0 .. MaxGraphNodes
    /\ num_threads_ \in 1 .. MaxThreads
    /\ bit_adj \in BOOLEAN
    /\ dataset_ = [d1 |-> Fill(num_nodes_, 0), d2 |-> Fill(num_nodes_, 0)]
    /\ min_pts_ = 1
    /\ squared_radius_ = 0
    /\ Va = Fill(2 * num_nodes_, 0)
    /\ Ea = <<>>
    /\ cluster_ids = Fill(num_nodes_, Unclustered)
    /\ memberships = Fill(num_nodes_, "Noise")
    /\ temp_adj_ = Graph_temp_adj(num_nodes_, bit_adj)
    /\ immutable_ = FALSE
    /\ IdleControl
    /\ pc = "graph"
    /\ run = 1
    /\ first = NoOutputs
    /\ call = NoCall

\* graph.insert_edge(u, v), dense build
Caller_insert_edge(u, v) ==
    /\ CallerIdle
    /\ ~bit_adj
    /\ LET throws == insert_edge_throws(immutable_, num_nodes_, u, v)
       IN  /\ (~throws /\ u < Len(temp_adj_)) => Len(temp_adj_[u + 1]) < MaxGraphLen
           /\ temp_adj_' = insert_edge(temp_adj_, immutable_, num_nodes_, u, v)
           /\ call' = Threw("insert_edge", u, v, insert_edge_what(throws, immutable_))
    /\ UNCHANGED <<inputs, num_threads_, bit_adj, Va, Ea, cluster_ids, memberships,
                   immutable_, pc, thr_u, node, cluster, bfsvars, run, first>>

\* graph.insert_edge(u, idx, mask), BIT_ADJ build
Caller_insert_edge_bits(u, idx, mask) ==
    /\ CallerIdle
    /\ bit_adj
    /\ LET throws == insert_edge_bits_throws(temp_adj_, immutable_, num_nodes_, u, idx)
       IN  /\ temp_adj_' = insert_edge_bits(temp_adj_, immutable_, num_nodes_, u, idx, mask)
           /\ call' = Threw("insert_edge", u, idx, insert_edge_what(throws, immutable_))
    /\ UNCHANGED <<inputs, num_threads_, bit_adj, Va, Ea, cluster_ids, memberships,
                   immutable_, pc, thr_u, node, cluster, bfsvars, run, first>>

\* graph.finalize(): the call
Caller_finalize ==
    /\ CallerIdle
    /\ pc' = "finalize"
    /\ UNCHANGED <<inputs, num_threads_, bit_adj, graph, thr_u, node, cluster,
                   bfsvars, run, first, call>>

\* classify_nodes(): the call
Caller_classify_nodes ==
    /\ CallerIdle
    /\ pc' = "classify_nodes"
    /\ UNCHANGED <<inputs, num_threads_, bit_adj, graph, thr_u, node, cluster,
                   bfsvars, run, first, call>>

NextGraph ==
    \/ \E u, v \in 0 .. num_nodes_ : Caller_insert_edge(u, v)
    \/ \E u \in 0 .. num_nodes_, idx \in 0 .. num_uint64(num_nodes_),
          mask \in SUBSET StageBits : Caller_insert_edge_bits(u, idx, mask)
    \/ Caller_finalize
    \/ Caller_classify_nodes
    \/ FinalizeBegin
    \/ \E tid \in Threads : FinalizeThread(tid)
    \/ FinalizeJoin
    \/ ClassifyNodes

SpecGraph == InitGraph /\ [][NextGraph]_vars

(***************************************************************************)
(* Vocabulary of the properties.                                           *)
(***************************************************************************)
Done == pc = "done"

\* the clusters as sets of nodes: the partition induced by the cluster ids
Partition(ids) ==
    { { k \in 1 .. Len(ids) : ids[k] = c } :
        c \in { ids[k] : k \in { j \in 1 .. Len(ids) : ids[j] # Unclustered } } }

\* the distance predicate between two points of the data set, as the
\* specification states it
Within(u, v) ==
    (dataset_.d1[u + 1] - dataset_.d1[v + 1]) * (dataset_.d1[u + 1] - dataset_.d1[v + 1])
      + (dataset_.d2[u + 1] - dataset_.d2[v + 1]) * (dataset_.d2[u + 1] - dataset_.d2[v + 1])
    <= squared_radius_

\* the finalized graph's neighbour list of u, as a sequence and as a set
Neighbors(u) == [i \in 1 .. Va[(2 * u + 1) + 1] |-> Ea[Va[(2 * u) + 1] + i]]
NeighborSet(u) == { Neighbors(u)[i] : i \in 1 .. Len(Neighbors(u)) }
Degree(u) == Va[(2 * u + 1) + 1]

Frozen == immutable_ /\ pc \in {"classify_nodes", "identify_cluster", "bfs", "done"}


\* the state classify_nodes leaves: identify_cluster has not started
Classified == pc = "identify_cluster" /\ node = 0 /\ cluster = 0

\* Core by definition: at least min_pts_ neighbours
IsCore(u) == Degree(u) >= min_pts_
CoreNodes == { k \in Nodes : IsCore(k) }

\* the Core nodes joined to S by paths of Core nodes
RECURSIVE CoreReach(_)
CoreReach(S) ==
    LET T == S \cup { v \in CoreNodes : \E u \in S : v \in NeighborSet(u) }
    IN  IF T = S THEN S ELSE CoreReach(T)

\* exclusive prefix sum of the degree slots: the sum of Va[2j + 1], j < k
RECURSIVE DegreeSum(_)
DegreeSum(k) == IF k = 0 THEN 0 ELSE DegreeSum(k - 1) + Va[(2 * (k - 1) + 1) + 1]

RECURSIVE SumCard(_, _)
SumCard(row, i) == IF i > Len(row) THEN 0 ELSE Cardinality(row[i]) + SumCard(row, i + 1)

\* the degree of k in the staging area
StagedDegree(k) ==
    IF bit_adj THEN SumCard(temp_adj_[k + 1], 1) ELSE Len(temp_adj_[k + 1])

SecondRun == Done /\ run = 2

(***************************************************************************)
(* C1: thread-count invariance.  A run with any number of threads ends     *)
(* with the membership array and the cluster partition of the run of the   *)
(* same build with one thread.                                             *)
(***************************************************************************)
C1_ThreadCountInvariance ==
    (SecondRun /\ first.num_threads = 1 /\ first.bit_adj = bit_adj)
      => /\ memberships = first.memberships
         /\ Partition(cluster_ids) = Partition(first.cluster_ids)

(***************************************************************************)
(* C2: when identify_cluster has returned, a node has a cluster id >= 0    *)
(* exactly when it is Core or Border, has id -1 exactly when it is Noise,  *)
(* and carries one of the three labels.                                    *)
(***************************************************************************)
C2_ClusteredIffCoreOrBorder ==
    Done => \A k \in Nodes :
              /\ memberships[k + 1] \in {"Core", "Border", "Noise"}
              /\ (cluster_ids[k + 1] >= 0) <=> (memberships[k + 1] \in {"Core", "Border"})
              /\ (cluster_ids[k + 1] = -1) <=> (memberships[k + 1] = "Noise")

\* a finished multi-threaded run with a node of each label
C2_Witness ==
    /\ Done
    /\ num_threads_ >= 2
    /\ \E a, b, c \in Nodes :
         /\ memberships[a + 1] = "Core" /\ cluster_ids[a + 1] >= 0
         /\ memberships[b + 1] = "Border" /\ cluster_ids[b + 1] >= 0
         /\ memberships[c + 1] = "Noise" /\ cluster_ids[c + 1] = -1

(***************************************************************************)
(* C3: when identify_cluster has returned, two Core nodes have the same    *)
(* cluster id exactly when a path of Core nodes joins them.                *)
(***************************************************************************)
C3_ClustersAreCoreComponents ==
    Done => \A u, v \in CoreNodes :
              (cluster_ids[u + 1] = cluster_ids[v + 1]) <=> (v \in CoreReach({u}))

(***************************************************************************)
(* C4: when identify_cluster has returned, a node of degree < minPts is    *)
(* Border exactly when it has a Core neighbour and is Noise with id -1     *)
(* otherwise; a Border node has the cluster id of one of its Core          *)
(* neighbours.                                                             *)
(***************************************************************************)
C4_BorderIffCoreNeighbour ==
    Done => \A k \in Nodes :
              ~IsCore(k) =>
                LET cores == { nb \in NeighborSet(k) : IsCore(nb) }
                IN  /\ (memberships[k + 1] = "Border") <=> (cores # {})
                    /\ cores = {} =>
                         (memberships[k + 1] = "Noise" /\ cluster_ids[k + 1] = -1)
                    /\ memberships[k + 1] = "Border" =>
                         \E nb \in cores : cluster_ids[nb + 1] = cluster_ids[k + 1]

C6_NeighbourSymmetry ==
    Frozen => \A u, v \in Nodes : (v \in NeighborSet(u)) <=> (u \in NeighborSet(v))

(***************************************************************************)
(* C7: CSR layout.  finalize writes into every odd slot Va[2k+1] the       *)
(* staged degree of k, and once the graph is frozen Va[0] = 0, every even  *)
(* slot Va[2k] is the sum of the degrees of the nodes before k, and the    *)
(* length of Ea is the sum of all degrees.                                 *)
(***************************************************************************)
C7_CsrLayout ==
    /\ [](Frozen => /\ Va[1] = 0
                    /\ \A k \in Nodes : Va[(2 * k) + 1] = DegreeSum(k)
                    /\ Len(Ea) = DegreeSum(num_nodes_))
    /\ [][pc = "finalize" => \A k \in Nodes : Va'[(2 * k + 1) + 1] = StagedDegree(k)]_vars

\* a frozen bitset-mode graph whose second node starts at a non-zero offset
\* and has neighbours of its own
C7_Witness ==
    /\ Frozen
    /\ bit_adj
    /\ num_nodes_ >= 2
    /\ Va[(2 * 1) + 1] > 0
    /\ Va[(2 * 1 + 1) + 1] > 0
    /\ Len(Ea) = Va[(2 * 1) + 1] + Va[(2 * 1 + 1) + 1]

(***************************************************************************)
(* C8: after classify_nodes a node is Core when its degree, the odd slot   *)
(* Va[2k+1] that finalize wrote, is >= minPts and Noise otherwise; none is *)
(* Border.                                                                 *)
(***************************************************************************)
C8_ClassifyByDegree ==
    Classified => \A k \in Nodes :
                    memberships[k + 1] =
                      (IF Va[(2 * k + 1) + 1] >= min_pts_ THEN "Core" ELSE "Noise")

(***************************************************************************)
(* C9: encoding equivalence.  On the same input and thread count the dense *)
(* build and the bitset build end with the same Va, the same neighbour set *)
(* per node, the same membership and the same cluster partition.           *)
(***************************************************************************)
C9_EncodingEquivalence ==
    (SecondRun /\ first.num_threads = num_threads_ /\ first.bit_adj # bit_adj)
      => /\ Va = first.Va
         /\ \A u \in Nodes :
              NeighborSet(u) =
                { first.Ea[first.Va[(2 * u) + 1] + i] : i \in 1 .. first.Va[(2 * u + 1) + 1] }
         /\ memberships = first.memberships
         /\ Partition(cluster_ids) = Partition(first.cluster_ids)

(***************************************************************************)
(* C10: determinism.  Two runs of the pipeline on the same input, build    *)
(* and thread count end with identical membership and cluster ids.         *)
(***************************************************************************)
C10_Determinism ==
    (SecondRun /\ first.num_threads = num_threads_ /\ first.bit_adj = bit_adj)
      => /\ memberships = first.memberships
         /\ cluster_ids = first.cluster_ids

(***************************************************************************)
(* C11: an edge insertion (dense or bitset) attempted once finalize has    *)
(* completed throws and leaves Va, Ea, memberships and cluster_ids as      *)
(* they were.                                                              *)
(***************************************************************************)
C11_InsertAfterFinalizeFails ==
    [][(immutable_ /\ call' # call /\ call'.op = "insert_edge")
         => /\ call'.thrown # "none"
            /\ UNCHANGED <<Va, Ea, memberships, cluster_ids>>]_vars

\* an in-range insert (dense or bitset) was refused on a
\* frozen graph that has edges
C11_Witness ==
    /\ immutable_
    /\ Len(Ea) > 0
    /\ call.op = "insert_edge"
    /\ call.thrown = "Graph is immutable!"
    /\ call.u < num_nodes_
    /\ call.v < (IF bit_adj THEN num_uint64(num_nodes_) ELSE num_nodes_)

(***************************************************************************)
(* C12: a read of Va or Ea attempted before finalize has completed, the    *)
(* reads of classify_nodes included, throws instead of returning the       *)
(* contents of the staging phase.                                          *)
(***************************************************************************)
C12_ReadBeforeFinalizeFails ==
    [][(~immutable_ /\ pc = "classify_nodes" /\ pc' = "identify_cluster")
         => (call'.op = "classify_nodes" /\ call'.thrown # "none")]_vars

(***************************************************************************)
(* C13: finalize is irreversible.  immutable_ never goes back from true to *)
(* false, and a call of finalize on a frozen graph throws and leaves Va    *)
(* and Ea as the first call left them.                                     *)
(***************************************************************************)
C13_FinalizeIrreversible ==
    [][/\ immutable_ => immutable_'
       /\ (pc = "finalize" /\ immutable_)
            => (call'.thrown # "none" /\ Va' = Va /\ Ea' = Ea)]_vars

\* a second finalize was refused on a frozen graph that has edges
C13_Witness ==
    /\ immutable_
    /\ Len(Ea) > 0
    /\ call.op = "finalize"
    /\ call.thrown = "Graph is immutable!"

(***************************************************************************)
(* C14: before finalize an insert throws exactly when it is out of range   *)
(* (dense: u >= N or v >= N; bitset: u >= N or idx >= ceil(N / 64)); an    *)
(* out-of-range insert leaves the staging area unchanged and an in-range   *)
(* dense insert appends v to the list of u.                                *)
(***************************************************************************)
C14_RangeChecked ==
    [][(~immutable_ /\ call' # call /\ call'.op = "insert_edge")
         => IF \/ call'.u >= num_nodes_
               \/ call'.v >= (IF bit_adj THEN CeilDiv(num_nodes_, 64) ELSE num_nodes_)
              THEN call'.thrown # "none" /\ temp_adj_' = temp_adj_
              ELSE /\ call'.thrown = "none"
                   /\ ~bit_adj => temp_adj_'[call'.u + 1]
                                     = Append(temp_adj_[call'.u + 1], call'.v)]_vars

\* before finalize a bitset insert with u in range and idx == ceil(N / 64)
\* was refused, on a graph that already has a staged bit
C14_Witness ==
    /\ ~immutable_
    /\ bit_adj
    /\ call.op = "insert_edge"
    /\ call.thrown = "is out of bound!"
    /\ call.u < num_nodes_
    /\ call.v = num_uint64(num_nodes_)
    /\ \E k \in Nodes : temp_adj_[k + 1][1] # {}

(***************************************************************************)
(* C15: empty input.  With num_nodes_ = 0 finalize makes no out-of-bounds  *)
(* access and raises nothing, leaves Va and Ea empty and the graph frozen, *)
(* and identify_cluster creates no cluster.                                *)
(***************************************************************************)
C15_EmptyInput ==
    num_nodes_ = 0 =>
      /\ pc # "crashed"
      /\ call.thrown = "none"
      /\ immutable_ => (Va = <<>> /\ Ea = <<>>)
      /\ pc \in {"classify_nodes", "identify_cluster", "done"} => immutable_
      /\ Done => (cluster = 0 /\ cluster_ids = <<>>)

(***************************************************************************)
(* C16, as stated: when all N >= 1 points are coincident and               *)
(* 1 <= minPts <= N, the finished run has every node Core and all nodes in *)
(* one cluster.                                                            *)
(***************************************************************************)
Coincident == \A u, v \in Nodes : d1(u) = d1(v) /\ d2(u) = d2(v)

C16_CoincidentAllCore ==
    (Done /\ num_nodes_ >= 1 /\ Coincident /\ min_pts_ >= 1 /\ min_pts_ <= num_nodes_)
      => /\ \A k \in Nodes : memberships[k + 1] = "Core"
         /\ \A k \in Nodes : cluster_ids[k + 1] = 0

(***************************************************************************)
(* C16, amended: when all N >= 1 points are coincident every node has      *)
(* degree N - 1; with 1 <= minPts <= N - 1 the finished run has every node *)
(* Core and all nodes in one cluster (id 0), and with minPts >= N every    *)
(* node is Noise with id -1.                                               *)
(***************************************************************************)
C16_CoincidentAllCoreBelowN ==
    (Done /\ num_nodes_ >= 1 /\ Coincident /\ min_pts_ >= 1)
      => IF min_pts_ <= num_nodes_ - 1
           THEN /\ \A k \in Nodes : memberships[k + 1] = "Core"
                /\ \A k \in Nodes : cluster_ids[k + 1] = 0
           ELSE /\ \A k \in Nodes : memberships[k + 1] = "Noise"
                /\ \A k \in Nodes : cluster_ids[k + 1] = -1

\* a finished two-thread run on three coincident points with minPts = N - 1
C16_Witness ==
    /\ Done
    /\ Coincident
    /\ num_nodes_ >= 3
    /\ min_pts_ = num_nodes_ - 1
    /\ num_threads_ >= 2
    /\ \A k \in Nodes : memberships[k + 1] = "Core" /\ cluster_ids[k + 1] = 0

(***************************************************************************)
(* C17: the bitset insert OR-merges.  On any staging matrix an in-range    *)
(* insert repeated leaves the matrix as the first one left it, two inserts *)
(* give the same matrix in either order, the inserted bits and the bits    *)
(* already there are all set afterwards, and the degrees finalize computes *)
(* are the same after the repeat; and no step before finalize clears a     *)
(* staged bit.                                                             *)
(***************************************************************************)
C17_OrMerge ==
    /\ []((bit_adj /\ ~immutable_ /\ CallerIdle) =>
            \A u, u2 \in Nodes :
              \A idx, idx2 \in 0 .. (num_uint64(num_nodes_) - 1) :
                \A m, m2 \in SUBSET StageBits :
                  LET ins(adj, a, b, c) ==
                          insert_edge_bits(adj, immutable_, num_nodes_, a, b, c)
                      once == ins(temp_adj_, u, idx, m)
                      twice == ins(once, u, idx, m)
                  IN  /\ twice = once
                      /\ ins(once, u2, idx2, m2) = ins(ins(temp_adj_, u2, idx2, m2), u, idx, m)
                      /\ once[u + 1][idx + 1] = temp_adj_[u + 1][idx + 1] \cup m
                      /\ finalize_Va_bits(Va, twice, 0) = finalize_Va_bits(Va, once, 0))
    /\ [][(bit_adj /\ ~immutable_ /\ ~immutable_')
            => \A k \in Nodes : \A i \in 1 .. num_uint64(num_nodes_) :
                 temp_adj_[k + 1][i] \subseteq temp_adj_'[k + 1][i]]_vars

\* before finalize, an accepted insert into a word that now holds several bits
C17_Witness ==
    /\ bit_adj
    /\ ~immutable_
    /\ call.op = "insert_edge"
    /\ call.thrown = "none"
    /\ Cardinality(temp_adj_[call.u + 1][call.v + 1]) >= 2

(***************************************************************************)
(* C18: duplicate enqueues are benign.  In particular the neighbour list   *)
(* of a node that classify_nodes left Noise (degree < minPts) is never     *)
(* expanded by bfs, in any interleaving: no worker is ever inside the      *)
(* neighbour loop of such a node.                                          *)
(***************************************************************************)
C18_DuplicateEnqueueBenign ==
    pc = "bfs" =>
      \A tid \in Threads :
        wk[tid + 1].pc \in {"check", "assign"} => IsCore(wk_node(tid))

(***************************************************************************)
(* C19: when bfs expands a node n it takes the offset from the even slot   *)
(* Va[2n] and the degree from the odd slot Va[2n+1], every position of Ea  *)
(* it reads is < |Ea|, and the nodes it reads are exactly neighbors(n).    *)
(***************************************************************************)
C19_BfsReadsSlice ==
    (pc = "bfs" /\ wk < Len(curr_level)) =>
      LET n == curr_level[wk + 1]
      IN  memberships[n + 1] # "Noise" =>
            /\ g_bfs_start_pos(n) = Va[(2 * n) + 1]
            /\ g_bfs_num_neighbours(n) = Va[(2 * n + 1) + 1]
            /\ \A i \in 0 .. (g_bfs_num_neighbours(n) - 1) :
                 g_bfs_start_pos(n) + i < Len(Ea)
            /\ { g_bfs_nb(n, i) : i \in 0 .. (g_bfs_num_neighbours(n) - 1) }
                 = NeighborSet(n)

(***************************************************************************)
(* C20: the parallel fill of finalize.  Worker t handles the nodes t,      *)
(* t + P, ...; once a node is handled its slice Ea[Va[2u] : Va[2u] +       *)
(* Va[2u+1]] holds its staged neighbours (dense: the list in insertion     *)
(* order; bitset: 64 * word + bit of every set bit, ascending) and until   *)
(* then the slice is unwritten; every position of Ea lies in the slice of  *)
(* exactly one node; a written position is never written again; no assert  *)
(* fires; and the frozen Ea has no unwritten position.  For every P >= 1,  *)
(* P > N included.                                                         *)
(***************************************************************************)
RECURSIVE SortedSeq(_)
SortedSeq(S) == IF S = {} THEN <<>> ELSE <<Min(S)>> \o SortedSeq(S \ {Min(S)})

\* the staged neighbours of u, in the order the claim gives
StagedNeighbours(u) ==
    IF bit_adj
      THEN SortedSeq(UNION { { WordBits * (i - 1) + b : b \in temp_adj_[u + 1][i] } :
                             i \in 1 .. Len(temp_adj_[u + 1]) })
      ELSE temp_adj_[u + 1]

\* the worker of u, u % P, is past u
Handled(u) == thr_u[(u % num_threads_) + 1] > u

C20_ParallelFill ==
    /\ [](pc # "aborted")
    /\ [](pc = "fill" =>
            /\ \A u \in Nodes :
                 IF Handled(u) THEN Neighbors(u) = StagedNeighbours(u)
                 ELSE \A i \in 1 .. Len(Neighbors(u)) : Neighbors(u)[i] = -1
            /\ \A p \in 0 .. (Len(Ea) - 1) :
                 Cardinality({ u \in Nodes : /\ Va[(2 * u) + 1] <= p
                                             /\ p < Va[(2 * u) + 1] + Va[(2 * u + 1) + 1] }) = 1)
    /\ [](Frozen => \A p \in 1 .. Len(Ea) : Ea[p] # -1)
    /\ [][(pc = "fill" /\ pc' = "fill")
            => \A p \in 1 .. Len(Ea) : Ea[p] # -1 => Ea'[p] = Ea[p]]_vars

\* every worker has finished, with more workers than nodes, and Ea holds
\* several neighbours
C20_Witness ==
    /\ pc = "fill"
    /\ num_threads_ > num_nodes_
    /\ \A u \in Nodes : Handled(u)
    /\ Len(Ea) >= 2

(***************************************************************************)
(* C21: termination.  Once identify_cluster has been entered, with any     *)
(* number of threads and any interleaving of the workers (duplicate        *)
(* enqueues included), every bfs reaches an empty frontier and             *)
(* identify_cluster returns.                                               *)
(***************************************************************************)
C21_Termination == (pc \in {"identify_cluster", "bfs"}) ~> Done

\* a finished multi-threaded run in which a duplicate enqueue happened: a
\* node that is not Core and has no Core neighbour was clustered
C21_Witness ==
    /\ Done
    /\ num_threads_ >= 2
    /\ cluster >= 1
    /\ \E k \in Nodes :
         /\ ~IsCore(k)
         /\ cluster_ids[k + 1] # Unclustered
         /\ \A v \in NeighborSet(k) : ~IsCore(v)

(***************************************************************************)
(* C22: cluster ids are write-once.  During identify_cluster an entry of   *)
(* cluster_ids only changes from -1 to a value >= 0 and never changes      *)
(* again; a worker about to write an entry finds it -1 or already holding  *)
(* the value it writes (concurrent writers write the same value), so the   *)
(* bfs of a later cluster never overwrites the id of an earlier one.       *)
(***************************************************************************)
C22_WriteOnce ==
    /\ [](pc = "bfs" =>
            \A tid \in Threads :
              wk[tid + 1].pc = "assign" =>
                cluster_ids[bfs_nb(wk_node(tid), wk[tid + 1].i) + 1]
                  \in {Unclustered, cluster})
    /\ [][(pc \in {"identify_cluster", "bfs"}) =>
            \A k \in Nodes :
              cluster_ids'[k + 1] # cluster_ids[k + 1] =>
                (/\ cluster_ids[k + 1] = Unclustered
                 /\ cluster_ids'[k + 1] >= 0
                 /\ cluster_ids'[k + 1] = cluster)]_vars

\* two workers of one level are both about to write the id of the same
\* node
C22_Witness ==
    /\ pc = "bfs"
    /\ \E t1, t2 \in Threads :
         /\ t1 # t2
         /\ wk[t1 + 1].pc = "assign"
         /\ wk[t2 + 1].pc = "assign"
         /\ bfs_nb(wk_node(t1), wk[t1 + 1].i) = bfs_nb(wk_node(t2), wk[t2 + 1].i)

(***************************************************************************)
(* C23: build partition.  With chunk = ceil(N / P), worker t of            *)
(* insert_edges handles the sources [t * chunk, min((t + 1) * chunk, N));  *)
(* for every N >= 0 and P >= 1 every source in [0, N) is in the range of   *)
(* exactly one worker, a worker steps through its range one source at a    *)
(* time and writes only the staging row of its current source, and at the  *)
(* join every worker has reached the end of its range.                     *)
(***************************************************************************)
SourcesOf(t) ==
    { u \in Nodes : t * ((num_nodes_ + num_threads_ - 1) \div num_threads_) <= u
                    /\ u < (t + 1) * ((num_nodes_ + num_threads_ - 1) \div num_threads_) }

C23_BuildPartition ==
    /\ [](pc = "insert_edges" =>
            /\ \A t \in Threads :
                 /\ { u \in Nodes : insert_start(t) <= u /\ u < insert_end(t) } = SourcesOf(t)
                 /\ thr_u[t + 1] >= insert_start(t)
                 /\ \A u \in SourcesOf(t) :
                      u >= thr_u[t + 1] => StagedDegree(u) = 0
            /\ \A u \in Nodes : Cardinality({ t \in Threads : u \in SourcesOf(t) }) = 1)
    /\ [][(pc = "insert_edges") =>
            IF pc' = "insert_edges"
              THEN \E t \in Threads :
                     /\ thr_u[t + 1] \in SourcesOf(t)
                     /\ thr_u' = [thr_u EXCEPT ![t + 1] = @ + 1]
                     /\ \A u \in Nodes :
                          u # thr_u[t + 1] => temp_adj_'[u + 1] = temp_adj_[u + 1]
              ELSE \A t \in Threads : SourcesOf(t) \subseteq 0 .. (thr_u[t + 1] - 1)]_vars

\* two workers on three points (N not divisible by P), both of which have
\* staged neighbours of a source of their own range
C23_Witness ==
    /\ pc = "insert_edges"
    /\ num_nodes_ = 3
    /\ num_threads_ = 2
    /\ \A t \in Threads :
         \E u \in SourcesOf(t) : u < thr_u[t + 1] /\ StagedDegree(u) > 0

(***************************************************************************)
(* C24: bfs level step.  With chunk = ceil(|curr_level| / P) every entry   *)
(* of curr_level is in the range of exactly one worker; while a worker of  *)
(* the level runs curr_level does not change and worker t only appends to  *)
(* next_level[t]; the join happens when every worker is past its range,    *)
(* makes curr_level the concatenation of next_level[0 .. P-1] in worker    *)
(* order and leaves every next_level[t] empty, as the entry of bfs does.   *)
(***************************************************************************)
EntriesOf(t) ==
    { j \in 0 .. (Len(curr_level) - 1) :
        /\ t * ((Len(curr_level) + num_threads_ - 1) \div num_threads_) <= j
        /\ j < (t + 1) * ((Len(curr_level) + num_threads_ - 1) \div num_threads_) }

RECURSIVE LenBefore(_, _)
LenBefore(lvls, t) == IF t = 0 THEN 0 ELSE LenBefore(lvls, t - 1) + Len(lvls[t])

LevelRunning == pc = "bfs" /\ \E t \in Threads : wk[t + 1].pc # "exit"

C24_BfsLevelStep ==
    /\ [](pc = "bfs" =>
            /\ chunk = (Len(curr_level) + num_threads_ - 1) \div num_threads_
            /\ \A j \in 0 .. (Len(curr_level) - 1) :
                 Cardinality({ t \in Threads : j \in EntriesOf(t) }) = 1
            /\ \A t \in Threads :
                 /\ { j \in 0 .. (Len(curr_level) - 1) :
                        bfs_start(t, chunk) <= j /\ j < bfs_end(t, chunk, Len(curr_level)) }
                      = EntriesOf(t)
                 /\ wk[t + 1].idx >= bfs_start(t, chunk)
                 /\ wk[t + 1].pc # "exit" => wk[t + 1].idx \in EntriesOf(t))
    /\ [][(pc = "bfs") =>
            IF LevelRunning
              THEN /\ curr_level' = curr_level
                   /\ pc' = "bfs"
                   /\ \E t \in Threads :
                        /\ \A o \in Threads \ {t} :
                             wk'[o + 1] = wk[o + 1] /\ next_level'[o + 1] = next_level[o + 1]
                        /\ wk'[t + 1].idx \in {wk[t + 1].idx, wk[t + 1].idx + 1}
                        /\ \/ next_level'[t + 1] = next_level[t + 1]
                           \/ \E nb \in Nodes :
                                next_level'[t + 1] = Append(next_level[t + 1], nb)
              ELSE /\ \A t \in Threads : EntriesOf(t) \subseteq 0 .. (wk[t + 1].idx - 1)
                   /\ Len(curr_level') = LenBefore(next_level, num_threads_)
                   /\ \A t \in Threads : \A j \in 1 .. Len(next_level[t + 1]) :
                        curr_level'[LenBefore(next_level, t) + j] = next_level[t + 1][j]
                   /\ \A t \in Threads : next_level'[t + 1] = <<>>]_vars
    /\ [][(pc = "identify_cluster" /\ pc' = "bfs") =>
            \A t \in Threads : next_level'[t + 1] = <<>>]_vars

\* a level of at least three entries run by two workers, each of which has
\* gone through an entry of its range and appended to its own next_level
C24_Witness ==
    /\ pc = "bfs"
    /\ num_threads_ = 2
    /\ Len(curr_level) >= 3
    /\ \A t \in Threads :
         /\ wk[t + 1].idx > bfs_start(t, chunk)
         /\ next_level[t + 1] # <<>>

(***************************************************************************)
(* C25: identify_cluster seeds a bfs only from a node that is Core and     *)
(* un-clustered, takes the nodes in increasing index order, and starts a   *)
(* seed only when the previous bfs has emptied its frontier; the k-th seed *)
(* gets id k, so the ids in use are exactly 0 .. C-1, and the seed of a    *)
(* cluster is its smallest-index Core node.                                *)
(***************************************************************************)
IdsInUse == { cluster_ids[k + 1] : k \in Nodes } \ {Unclustered}
CoreOf(c) == { k \in Nodes : cluster_ids[k + 1] = c /\ memberships[k + 1] = "Core" }

C25_SeedOrder ==
    /\ [](pc \in {"identify_cluster", "done"} => IdsInUse = 0 .. (cluster - 1))
    /\ [](pc = "bfs" =>
            /\ IdsInUse = 0 .. cluster
            /\ node \in CoreOf(cluster)
            /\ \A k \in CoreOf(cluster) : k >= node)
    /\ [](pc \in {"identify_cluster", "bfs"} =>
            \A k \in Nodes : (k < node /\ memberships[k + 1] = "Core")
                                => cluster_ids[k + 1] # Unclustered)
    /\ [](Done =>
            /\ \A c \in 0 .. (cluster - 1) : CoreOf(c) # {}
            /\ \A c, d \in 0 .. (cluster - 1) :
                 c < d => Min(CoreOf(c)) < Min(CoreOf(d)))
    /\ [][(pc = "identify_cluster" /\ pc' = "bfs") =>
            /\ curr_level = <<>>
            /\ node' >= node
            /\ memberships[node' + 1] = "Core"
            /\ cluster_ids[node' + 1] = Unclustered
            /\ \A k \in node .. (node' - 1) :
                 ~(memberships[k + 1] = "Core" /\ cluster_ids[k + 1] = Unclustered)
            /\ cluster_ids' = [cluster_ids EXCEPT ![node' + 1] = cluster]
            /\ cluster' = cluster]_vars
    /\ [][(pc = "bfs" /\ pc' # "bfs") =>
            /\ pc' = "identify_cluster"
            /\ curr_level' = <<>>
            /\ cluster' = cluster + 1
            /\ node' = node + 1]_vars

\* a finished multi-threaded run with at least two clusters, the second of
\* which was seeded after nodes that are not Core were passed over
C25_Witness ==
    /\ Done
    /\ num_threads_ >= 2
    /\ cluster >= 2
    /\ \E k \in Nodes : memberships[k + 1] # "Core" /\ k < Min(CoreOf(1))

(***************************************************************************)
(* C26: during identify_cluster the only membership change is Noise to     *)
(* Border, and it happens to a node of the current frontier: the Core      *)
(* nodes are at every moment exactly the nodes of degree >= minPts, and a  *)
(* Border node never changes again.                                        *)
(***************************************************************************)
Frontier == { curr_level[j] : j \in 1 .. Len(curr_level) }

C26_MembershipMonotone ==
    /\ [](pc \in {"identify_cluster", "bfs", "done"} =>
            \A k \in Nodes : memberships[k + 1] = "Core" <=> IsCore(k))
    /\ [](pc = "bfs" =>
            \A t \in Threads :
              wk[t + 1].pc = "relabel" =>
                memberships[wk_node(t) + 1] \in {"Noise", "Border"})
    /\ [][(pc \in {"identify_cluster", "bfs"}) =>
            \A k \in Nodes :
              memberships'[k + 1] # memberships[k + 1] =>
                (/\ memberships[k + 1] = "Noise"
                 /\ memberships'[k + 1] = "Border"
                 /\ pc = "bfs"
                 /\ k \in Frontier)]_vars

\* a worker is about to relabel a node that another worker of the same
\* level has already made Border
C26_Witness ==
    /\ pc = "bfs"
    /\ \E t \in Threads :
         /\ wk[t + 1].pc = "relabel"
         /\ memberships[wk_node(t) + 1] = "Border"

(***************************************************************************)
(* C27: when identify_cluster has returned, a node that is not Core and    *)
(* has Core neighbours in several clusters has the smallest cluster id     *)
(* among the clusters of its Core neighbours, for every thread count.      *)
(***************************************************************************)
CoreNeighbourIds(u) == { cluster_ids[v + 1] : v \in NeighborSet(u) \cap CoreNodes }

C27_BorderTakesSmallestId ==
    Done => \A u \in Nodes :
              (~IsCore(u) /\ Cardinality(CoreNeighbourIds(u)) >= 2)
                => cluster_ids[u + 1] = Min(CoreNeighbourIds(u))

=============================================================================
